---------------------------- MODULE Spec2Model ----------------------------
(***************************************************************************)
(* Model of the DGII RNC lookup service (src/main.py): identifier          *)
(* sanitization, the two-request form interaction, the HTML result parser, *)
(* the TTL cache in rnc_cache, the day-bucketed usage_metrics table and   *)
(* the two /api/consulta handlers.                                         *)
(*                                                                         *)
(* Text is a sequence of one-character tokens.  ASCII characters stand     *)
(* for themselves; the accented letters are written "a'" "e'" "i'" "o'"    *)
(* "u'" "n~" (lower case) and "A'" "E'" "I'" "O'" "U'" "N~" (upper case);  *)
(* "u0663" is ARABIC-INDIC DIGIT THREE, a decimal digit that is not ASCII. *)
(* Time is counted in days; the empty mapping <<>> stands for None and for *)
(* an empty dict.                                                          *)
(***************************************************************************)
EXTENDS Integers, Sequences, FiniteSets, TLC

VARIABLES
    now,        \* datetime.utcnow(), in days
    store,      \* table rnc_cache: rnc -> [response_json, created_at]
    metrics,    \* table usage_metrics: date -> row
    pc,         \* position of each request handler
    raw,        \* identifier as supplied by the caller
    rnc,        \* handler argument after sanitize_rnc
    hidden,     \* consulta_rnc: hidden inputs extracted from the GET
    result,     \* consulta_rnc: return value
    response,   \* body handed back by the handler
    status,     \* HTTP status of the response
    calls,      \* upstream requests issued by the handler, in order
    reported,   \* update_metrics calls made by the handler, in order
    started,    \* number of requests accepted so far
    lastSaved,  \* rnc -> data and time of the last save_cache call for it
    recorded,   \* date -> number of update_metrics calls on that date
    arg,        \* SpecSanitize: the supplied identifier; SpecParse: the page
    out,        \* SpecParse: what parse_result_table returned
    lock,       \* sqlite write lock of the database file: its holder, or NoHolder
    txn,        \* update_metrics call in progress on each connection
    imp,        \* update_rnc_db.py: locals of the importer run
    disk        \* files in the importer's working directory

vars == <<now, store, metrics, pc, raw, rnc, hidden, result, response, status,
          calls, reported, started, lastSaved, recorded, arg, out,
          lock, txn, imp, disk>>

-----------------------------------------------------------------------------
(* Bounds *)

MaxTime == 8

MaxLookups == 2

MaxRawLen == 3

MaxRows == 2

MaxEdits == 1

-----------------------------------------------------------------------------
(* Program constants *)

CACHE_WEEKS == 1

DaysPerWeek == 7

CACHE_DELTA == DaysPerWeek * CACHE_WEEKS

K_error ==
    <<"e", "r", "r", "o", "r">>

K_tipo ==
    <<"t", "i", "p", "o">>

K_mensaje ==
    <<"m", "e", "n", "s", "a", "j", "e">>

K_rnc_consultado ==
    <<"r", "n", "c", "_", "c", "o", "n", "s", "u", "l", "t", "a", "d", "o">>

K_cache ==
    <<"c", "a", "c", "h", "e">>

K_codigo_http ==
    <<"c", "o", "d", "i", "g", "o", "_", "h", "t", "t", "p">>

K_cedula_rnc ==
    <<"c", "e", "d", "u", "l", "a", "_", "r", "n", "c">>

K_nombre_razon_social ==
    <<"n", "o", "m", "b", "r", "e", "_", "r", "a", "z", "o", "n", "_", "s", "o", "c", "i", "a",
    "l">>

K_nombre_comercial ==
    <<"n", "o", "m", "b", "r", "e", "_", "c", "o", "m", "e", "r", "c", "i", "a", "l">>

K_categoria ==
    <<"c", "a", "t", "e", "g", "o", "r", "i", "a">>

K_regimen_de_pagos ==
    <<"r", "e", "g", "i", "m", "e", "n", "_", "d", "e", "_", "p", "a", "g", "o", "s">>

K_estado ==
    <<"e", "s", "t", "a", "d", "o">>

K_actividad_economica ==
    <<"a", "c", "t", "i", "v", "i", "d", "a", "d", "_", "e", "c", "o", "n", "o", "m", "i", "c",
    "a">>

K_administracion_local ==
    <<"a", "d", "m", "i", "n", "i", "s", "t", "r", "a", "c", "i", "o", "n", "_", "l", "o", "c",
    "a", "l">>

K_facturador_electronico ==
    <<"f", "a", "c", "t", "u", "r", "a", "d", "o", "r", "_", "e", "l", "e", "c", "t", "r", "o",
    "n", "i", "c", "o">>

K_licencias_de_comercializacion_de_vhm ==
    <<"l", "i", "c", "e", "n", "c", "i", "a", "s", "_", "d", "e", "_", "c", "o", "m", "e", "r",
    "c", "i", "a", "l", "i", "z", "a", "c", "i", "o", "n", "_", "d", "e", "_", "v", "h", "m">>

NotRegisteredPhrase ==
    <<"e", "l", " ", "r", "n", "c", "/", "c", "e", "d", "u", "l", "a", " ", "c", "o", "n", "s",
    "u", "l", "t", "a", "d", "o", " ", "n", "o", " ", "s", "e", " ", "e", "n", "c", "u", "e",
    "n", "t", "r", "a", " ", "i", "n", "s", "c", "r", "i", "t", "o", " ", "c", "o", "m", "o",
    " ", "c", "o", "n", "t", "r", "i", "b", "u", "y", "e", "n", "t", "e", ".">>

RespuestaVacia ==
    <<"R", "e", "s", "p", "u", "e", "s", "t", "a", " ", "v", "a", "c", "i'", "a", " ", "d",
    "e", " ", "D", "G", "I", "I">>

L_cedula_rnc ==
    <<"C", "e'", "d", "u", "l", "a", "/", "R", "N", "C">>

L_nombre_razon_social ==
    <<"N", "o", "m", "b", "r", "e", "/", "R", "a", "z", "o'", "n", " ", "S", "o", "c", "i",
    "a", "l">>

L_nombre_comercial ==
    <<"N", "o", "m", "b", "r", "e", " ", "C", "o", "m", "e", "r", "c", "i", "a", "l">>

L_categoria ==
    <<"C", "a", "t", "e", "g", "o", "r", "i'", "a">>

L_regimen_de_pagos ==
    <<"R", "e'", "g", "i", "m", "e", "n", " ", "d", "e", " ", "p", "a", "g", "o", "s">>

L_estado ==
    <<"E", "s", "t", "a", "d", "o">>

L_actividad_economica ==
    <<"A", "c", "t", "i", "v", "i", "d", "a", "d", " ", "E", "c", "o", "n", "o", "m", "i", "c",
    "a">>

L_administracion_local ==
    <<"A", "d", "m", "i", "n", "i", "s", "t", "r", "a", "c", "i", "o", "n", " ", "L", "o", "c",
    "a", "l">>

L_facturador_electronico ==
    <<"F", "a", "c", "t", "u", "r", "a", "d", "o", "r", " ", "E", "l", "e", "c", "t", "r",
    "o'", "n", "i", "c", "o">>

L_licencias ==
    <<"L", "i", "c", "e", "n", "c", "i", "a", "s", " ", "d", "e", " ", "C", "o", "m", "e", "r",
    "c", "i", "a", "l", "i", "z", "a", "c", "i", "o'", "n", " ", "d", "e", " ", "V", "H", "M">>

MsgNoInscrito ==
    <<"E", "l", " ", "R", "N", "C", "/", "C", "e'", "d", "u", "l", "a", " ", "c", "o", "n",
    "s", "u", "l", "t", "a", "d", "o", " ", "n", "o", " ", "s", "e", " ", "e", "n", "c", "u",
    "e", "n", "t", "r", "a", " ", "i", "n", "s", "c", "r", "i", "t", "o", " ", "c", "o", "m",
    "o", " ", "C", "o", "n", "t", "r", "i", "b", "u", "y", "e", "n", "t", "e", ".">>

MsgBloqueo ==
    <<"S", "e", "r", "v", "i", "c", "i", "o", " ", "n", "o", " ", "d", "i", "s", "p", "o", "n",
    "i", "b", "l", "e">>

MsgNoInscritoMayus ==
    <<"E", "L", " ", "R", "N", "C", "/", "C", "E'", "D", "U", "L", "A", " ", "C", "O", "N",
    "S", "U", "L", "T", "A", "D", "O", " ", "N", "O", " ", "S", "E", " ", "E", "N", "C", "U",
    "E", "N", "T", "R", "A", " ", "I", "N", "S", "C", "R", "I", "T", "O", " ", "C", "O", "M",
    "O", " ", "C", "O", "N", "T", "R", "I", "B", "U", "Y", "E", "N", "T", "E", ".">>

Raw_132_01 ==
    <<"1", "3", "2", "-", "0", "1">>

Digits_13201 ==
    <<"1", "3", "2", "0", "1">>

-----------------------------------------------------------------------------
(* Text helpers *)

Whitespace == {" ", "\t"}

Digits == {"0", "1", "2", "3", "4", "5", "6", "7", "8", "9", "u0663"}

UpperCase ==
    <<"A", "B", "C", "D", "E", "F", "G", "H", "I", "J", "K", "L", "M", "N", "O", "P", "Q",
      "R", "S", "T", "U", "V", "W", "X", "Y", "Z", "A'", "E'", "I'", "O'", "U'", "N~">>

LowerCase ==
    <<"a", "b", "c", "d", "e", "f", "g", "h", "i", "j", "k", "l", "m", "n", "o", "p", "q",
      "r", "s", "t", "u", "v", "w", "x", "y", "z", "a'", "e'", "i'", "o'", "u'", "n~">>

\* str.lower() on one character
LowerChar(c) ==
    IF \E i \in 1..Len(UpperCase) : UpperCase[i] = c
    THEN LowerCase[CHOOSE i \in 1..Len(UpperCase) : UpperCase[i] = c]
    ELSE c

\* str.lower()
lower(text) == [i \in 1..Len(text) |-> LowerChar(text[i])]

RECURSIVE replace(_, _, _)
\* str.replace(old, new) for a one-character old
replace(text, old, new) ==
    IF text = <<>> THEN <<>>
    ELSE (IF Head(text) = old THEN new ELSE <<Head(text)>>) \o replace(Tail(text), old, new)

RECURSIVE lstrip(_)
lstrip(text) ==
    IF text # <<>> /\ Head(text) \in Whitespace THEN lstrip(Tail(text)) ELSE text

RECURSIVE rstrip(_)
rstrip(text) ==
    IF text # <<>> /\ text[Len(text)] \in Whitespace
    THEN rstrip(SubSeq(text, 1, Len(text) - 1))
    ELSE text

\* str.strip()
strip(text) == rstrip(lstrip(text))

\* needle in hay
Contains(needle, hay) ==
    \E i \in 0..(Len(hay) - Len(needle)) : SubSeq(hay, i + 1, i + Len(needle)) = needle

-----------------------------------------------------------------------------
(* Utils *)

normalize_text(text) ==
    lower(replace(replace(replace(replace(replace(replace(text,
        "e'", <<"e">>), "o'", <<"o">>), "i'", <<"i">>), "a'", <<"a">>), "u'", <<"u">>),
        "n~", <<"n">>))

RECURSIVE re_sub_nondigit(_)
\* re.sub(r'\D', '', s)
re_sub_nondigit(s) ==
    IF s = <<>> THEN <<>>
    ELSE (IF Head(s) \in Digits THEN <<Head(s)>> ELSE <<>>) \o re_sub_nondigit(Tail(s))

sanitize_rnc_hyphen_only(r) == replace(strip(r), "-", <<>>)

sanitize_rnc(r) == re_sub_nondigit(strip(r))

\* soup.select("input[type=hidden]") keeping the named ones
RECURSIVE parse_hidden_inputs(_)
parse_hidden_inputs(html) ==
    IF html.inputs = <<>> THEN <<>>
    ELSE LET inp == Head(html.inputs)
             rest == parse_hidden_inputs([html EXCEPT !.inputs = Tail(html.inputs)])
         IN IF inp.type = "hidden" /\ inp.name # ""
            THEN (inp.name :> inp.value) @@ rest
            ELSE rest

INFO_SPAN_ID == "cphMain_lblInformacion"

\* re.compile("dvDatosContribuyentes", re.I).search(id)
MatchesDatosContribuyentes(id) ==
    id \in {"cphMain_dvDatosContribuyentes", "CPHMAIN_DVDATOSCONTRIBUYENTES"}

\* the first element at one of the positions hits, or none
FirstAt(elems, hits) ==
    IF hits = {} THEN <<>>
    ELSE <<elems[CHOOSE i \in hits : \A j \in hits : i <= j]>>

\* soup.find("span", id="cphMain_lblInformacion")
find_error_span(html) ==
    FirstAt(html.spans, {i \in 1..Len(html.spans) : html.spans[i].id = INFO_SPAN_ID})

\* soup.find("table", id=re.compile("dvDatosContribuyentes", re.I))
find_table(html) ==
    FirstAt(html.tables,
            {i \in 1..Len(html.tables) : MatchesDatosContribuyentes(html.tables[i].id)})

RowKey(cols) ==
    normalize_text(replace(replace(replace(strip(cols[1]), ":", <<>>), "/", <<"_">>),
                           " ", <<"_">>))

RECURSIVE TableData(_, _)
\* the loop over table.find_all("tr"): later rows overwrite earlier keys
TableData(rows, data) ==
    IF rows = <<>> THEN data
    ELSE LET cols == Head(rows)
         IN TableData(Tail(rows),
                IF Len(cols) = 2
                THEN (RowKey(cols) :> strip(cols[2])) @@ data
                ELSE data)

ErrorResult(tipo, mensaje) ==
    (K_error :> TRUE) @@ (K_tipo :> tipo) @@ (K_mensaje :> mensaje)

parse_result_table_table_first(html) ==
    LET error_span == find_error_span(html)
        table == find_table(html)
        data == IF table # <<>> THEN TableData(table[1].rows, <<>>) ELSE <<>>
    IN IF DOMAIN data # {} THEN data
       ELSE IF error_span # <<>>
       THEN LET mensaje == normalize_text(strip(error_span[1].text))
            IN IF Contains(NotRegisteredPhrase, mensaje)
               THEN ErrorResult("rnc_no_encontrado", mensaje)
               ELSE ErrorResult("dgii_error", mensaje)
       ELSE ErrorResult("dgii_error", RespuestaVacia)

parse_result_table(html) ==
    LET error_span == find_error_span(html)
    IN IF error_span # <<>>
       THEN LET mensaje == normalize_text(strip(error_span[1].text))
            IN IF Contains(NotRegisteredPhrase, mensaje)
               THEN ErrorResult("rnc_no_encontrado", mensaje)
               ELSE ErrorResult("dgii_error", mensaje)
       ELSE LET table == find_table(html)
                data == IF table # <<>> THEN TableData(table[1].rows, <<>>) ELSE <<>>
            IN IF DOMAIN data = {}
               THEN ErrorResult("dgii_error", RespuestaVacia)
               ELSE data

-----------------------------------------------------------------------------
(* Serialization *)

\* datetime.isoformat(): decimal text of the instant
isoformat(t) == <<t \div 10, t % 10>>

\* datetime.fromisoformat()
fromisoformat(s) == s[1] * 10 + s[2]

RECURSIVE json_dumps(_)
\* json.dumps(data, ensure_ascii=False): the members of the object, in order
json_dumps(data) ==
    IF DOMAIN data = {} THEN <<>>
    ELSE LET k == CHOOSE x \in DOMAIN data : TRUE
         IN <<<<k, data[k]>>>> \o json_dumps([x \in DOMAIN data \ {k} |-> data[x]])

RECURSIVE json_loads(_)
\* json.loads(text)
json_loads(text) ==
    IF text = <<>> THEN <<>>
    ELSE (text[Len(text)][1] :> text[Len(text)][2])
         @@ json_loads(SubSeq(text, 1, Len(text) - 1))

-----------------------------------------------------------------------------
(* Cache logic *)

get_cached_rnc_strict(db, r, utcnow) ==
    IF r \notin DOMAIN db THEN <<>>
    ELSE LET created_at == fromisoformat(db[r].created_at)
         IN IF utcnow - created_at < CACHE_DELTA
            THEN (K_cache :> TRUE) @@ json_loads(db[r].response_json)
            ELSE <<>>

\* the empty mapping stands for None
get_cached_rnc(db, r, utcnow) ==
    IF r \notin DOMAIN db THEN <<>>
    ELSE LET created_at == fromisoformat(db[r].created_at)
         IN IF utcnow - created_at <= CACHE_DELTA
            THEN (K_cache :> TRUE) @@ json_loads(db[r].response_json)
            ELSE <<>>

get_error_not_registered_only(data) ==
    K_tipo \in DOMAIN data /\ data[K_tipo] = "rnc_no_encontrado"

\* dict.get("error") on a result
get_error(data) == K_error \in DOMAIN data /\ data[K_error] = TRUE

save_cache_insert_only(db, r, data, utcnow) ==
    IF DOMAIN data = {} \/ K_error \in DOMAIN data \/ r \in DOMAIN db THEN db
    ELSE (r :> [response_json |-> json_dumps(data), created_at |-> isoformat(utcnow)]) @@ db

save_cache_keep_created(db, r, data, utcnow) ==
    IF DOMAIN data = {} \/ K_error \in DOMAIN data THEN db
    ELSE (r :> [response_json |-> json_dumps(data),
                created_at |-> IF r \in DOMAIN db THEN db[r].created_at
                               ELSE isoformat(utcnow)]) @@ db

save_cache(db, r, data, utcnow) ==
    IF DOMAIN data = {} \/ get_error(data) THEN db
    ELSE (r :> [response_json |-> json_dumps(data), created_at |-> isoformat(utcnow)]) @@ db

NewMetricsRow(utcnow) ==
    [total_requests |-> 0, cache_hits |-> 0, cache_misses |-> 0, errors |-> 0,
     created_at |-> isoformat(utcnow), updated_at |-> isoformat(utcnow)]

update_metrics_miss_on_error(m, utcnow, cache_hit, error) ==
    LET today == isoformat(utcnow)
        ins == IF today \in DOMAIN m THEN m ELSE (today :> NewMetricsRow(utcnow)) @@ m
    IN [ins EXCEPT ![today] =
           [@ EXCEPT !.total_requests = @ + 1,
                     !.cache_hits = @ + (IF cache_hit THEN 1 ELSE 0),
                     !.cache_misses = @ + (IF error THEN 1 ELSE 0),
                     !.errors = @ + (IF error THEN 1 ELSE 0),
                     !.updated_at = isoformat(utcnow)]]

\* INSERT OR IGNORE of the day row, then the UPDATE of its counters
update_metrics(m, utcnow, cache_hit, error) ==
    LET today == isoformat(utcnow)
        ins == IF today \in DOMAIN m THEN m ELSE (today :> NewMetricsRow(utcnow)) @@ m
    IN [ins EXCEPT ![today] =
           [@ EXCEPT !.total_requests = @ + 1,
                     !.cache_hits = @ + (IF cache_hit THEN 1 ELSE 0),
                     !.cache_misses = @ + (IF cache_hit THEN 0 ELSE 1),
                     !.errors = @ + (IF error THEN 1 ELSE 0),
                     !.updated_at = isoformat(utcnow)]]

-----------------------------------------------------------------------------
(* Upstream site *)

TXT_RNC_FIELD == "ctl00$cphMain$txtRNCCedula"

BTN_BUSCAR_FIELD == "ctl00$cphMain$btnBuscarPorRNC"

FormPage ==
    [inputs |-> << [type |-> "hidden", name |-> "__VIEWSTATE", value |-> "vs"],
                   [type |-> "text", name |-> TXT_RNC_FIELD, value |-> ""] >>]

BarePage == [inputs |-> <<>>]

\* what session.get can produce: an exception, or a response of any status
GetOutcomes ==
    { [exc |-> TRUE, status_code |-> 0, text |-> BarePage],
      [exc |-> FALSE, status_code |-> 200, text |-> FormPage],
      [exc |-> FALSE, status_code |-> 503, text |-> BarePage] }

InfoSpan(text) == [id |-> INFO_SPAN_ID, text |-> text]

DatosTable(rows) == [id |-> "cphMain_dvDatosContribuyentes", rows |-> rows]

FullRows ==
    << <<L_cedula_rnc, <<"1", "2">> >>,
       <<L_nombre_razon_social, <<"A">> >>,
       <<L_nombre_comercial, <<>> >>,
       <<L_categoria, <<>> >>,
       <<L_regimen_de_pagos, <<"N">> >>,
       <<L_estado, <<"A">> >>,
       <<L_actividad_economica, <<>> >>,
       <<L_administracion_local, <<>> >>,
       <<L_facturador_electronico, <<"S">> >>,
       <<L_licencias, <<"N">> >> >>

PageNoInscrito == [spans |-> <<InfoSpan(MsgNoInscrito)>>, tables |-> <<>>]

PageBloqueo == [spans |-> <<InfoSpan(MsgBloqueo)>>, tables |-> <<>>]

PageFull == [spans |-> <<>>, tables |-> <<DatosTable(FullRows)>>]

PagePartial == [spans |-> <<>>, tables |-> <<DatosTable(SubSeq(FullRows, 1, 2))>>]

PageEmpty == [spans |-> <<>>, tables |-> <<>>]

\* what session.post can produce
PostOutcomes ==
    { [exc |-> TRUE, status_code |-> 0, text |-> PageEmpty],
      [exc |-> FALSE, status_code |-> 503, text |-> PageEmpty] }
    \cup { [exc |-> FALSE, status_code |-> 200, text |-> page] :
             page \in {PageNoInscrito, PageBloqueo, PageFull, PagePartial} }

-----------------------------------------------------------------------------
(* Request handlers *)

Procs == {"w1", "w2"}

\* identifiers callers supply
RawInputs == { <<"1", "-", "2">>, <<"x">> }

ProfileFields ==
    { K_cedula_rnc, K_nombre_razon_social, K_nombre_comercial, K_categoria,
      K_regimen_de_pagos, K_estado, K_actividad_economica, K_administracion_local,
      K_facturador_electronico, K_licencias_de_comercializacion_de_vhm }

\* response_model=ConsultaResponse: every declared field is required
ConsultaResponse(body) == ProfileFields \cup {K_rnc_consultado, K_cache} \subseteq DOMAIN body

Payload(hid, rnc_value) ==
    (TXT_RNC_FIELD :> rnc_value) @@ (BTN_BUSCAR_FIELD :> "BUSCAR") @@ hid

\* no connection holds the write lock
NoHolder == "none"

\* a connection on which update_metrics has not run yet
NoCall ==
    [today |-> <<>>, now |-> 0, cache_hit |-> FALSE, error |-> FALSE,
     view |-> <<>>, overlapped |-> FALSE]

\* no registry file
NoFile == [has_header |-> FALSE, rows |-> <<>>]

\* the importer before its first run: nothing downloaded, nothing read
ImporterIdle ==
    [pc |-> "idle", runs |-> 0, extracted_file |-> "", content |-> NoFile,
     rows |-> <<>>, batch_data |-> <<>>, count |-> 0, updated |-> 0,
     now_iso |-> <<>>, committed |-> <<>>, printed |-> -1, aborted |-> FALSE,
     done_content |-> NoFile, snapshot |-> <<>>, reimport |-> FALSE]

InitSystem ==
    /\ lock = NoHolder
    /\ txn = [p \in Procs |-> NoCall]
    /\ imp = ImporterIdle
    /\ disk = {}
    /\ now = 0
    /\ store = <<>>
    /\ metrics = <<>>
    /\ pc = [p \in Procs |-> "idle"]
    /\ raw = [p \in Procs |-> <<>>]
    /\ rnc = [p \in Procs |-> <<>>]
    /\ hidden = [p \in Procs |-> <<>>]
    /\ result = [p \in Procs |-> <<>>]
    /\ response = [p \in Procs |-> <<>>]
    /\ status = [p \in Procs |-> 0]
    /\ calls = [p \in Procs |-> <<>>]
    /\ reported = [p \in Procs |-> <<>>]
    /\ started = 0
    /\ lastSaved = <<>>
    /\ recorded = [d \in 0..MaxTime |-> 0]

Init ==
    /\ InitSystem
    /\ arg = <<>>
    /\ out = <<>>

\* time passes: by exactly the TTL, or by one day more
Tick ==
    /\ \E d \in {CACHE_DELTA, CACHE_DELTA + 1} :
          /\ now + d <= MaxTime
          /\ now' = now + d
    /\ UNCHANGED <<store, metrics, pc, raw, rnc, hidden, result, response, status,
                   calls, reported, started, lastSaved, recorded, arg, out,
                   lock, txn, imp, disk>>

\* ConsultaRequest.sanitize, the "before" validator of the POST body
ConsultaRequest_sanitize(v) == sanitize_rnc(v)

\* both handlers up to the cache read: get_cached_rnc(rnc)
HandlerEntry(p, r, key) ==
    /\ pc[p] \in {"idle", "done"}
    /\ started < MaxLookups
    /\ started' = started + 1
    /\ LET cached == get_cached_rnc(store, key, now)
       IN /\ result' = [result EXCEPT ![p] = cached]
          /\ pc' = [pc EXCEPT ![p] = IF DOMAIN cached # {} THEN "hit" ELSE "get"]
    /\ raw' = [raw EXCEPT ![p] = r]
    /\ rnc' = [rnc EXCEPT ![p] = key]
    /\ hidden' = [hidden EXCEPT ![p] = <<>>]
    /\ response' = [response EXCEPT ![p] = <<>>]
    /\ status' = [status EXCEPT ![p] = 0]
    /\ calls' = [calls EXCEPT ![p] = <<>>]
    /\ reported' = [reported EXCEPT ![p] = <<>>]
    /\ UNCHANGED <<now, store, metrics, lastSaved, recorded, arg, out,
                   lock, txn, imp, disk>>

\* GET /api/consulta: rnc = Depends(sanitize_rnc)
consulta_get(p, r) == HandlerEntry(p, r, sanitize_rnc(r))

\* POST /api/consulta: rnc = body.rnc
consulta_post(p, r) == HandlerEntry(p, r, ConsultaRequest_sanitize(r))

\* the cached branch: update_metrics(cache_hit=True, error=False); return cached
ReturnCached(p) ==
    /\ pc[p] = "hit"
    /\ metrics' = update_metrics(metrics, now, TRUE, FALSE)
    /\ recorded' = [recorded EXCEPT ![now] = @ + 1]
    /\ reported' = [reported EXCEPT ![p] = Append(@, [cache_hit |-> TRUE, error |-> FALSE])]
    /\ response' = [response EXCEPT ![p] = result[p]]
    /\ status' = [status EXCEPT ![p] = IF ConsultaResponse(result[p]) THEN 200 ELSE 500]
    /\ pc' = [pc EXCEPT ![p] = "done"]
    /\ UNCHANGED <<now, store, raw, rnc, hidden, result, calls, started,
                   lastSaved, arg, out,
                   lock, txn, imp, disk>>

\* consulta_rnc: session.get and parse_hidden_inputs; an exception of
\* requests leaves the handler
Get(p) ==
    /\ pc[p] = "get"
    /\ \E r \in GetOutcomes :
          /\ calls' = [calls EXCEPT ![p] =
                          Append(@, [method |-> "GET", exc |-> r.exc,
                                     status_code |-> r.status_code, data |-> <<>>])]
          /\ IF r.exc
             THEN /\ pc' = [pc EXCEPT ![p] = "done"]
                  /\ status' = [status EXCEPT ![p] = 500]
                  /\ UNCHANGED hidden
             ELSE /\ pc' = [pc EXCEPT ![p] = "post"]
                  /\ hidden' = [hidden EXCEPT ![p] = parse_hidden_inputs(r.text)]
                  /\ UNCHANGED status
    /\ UNCHANGED <<now, store, metrics, raw, rnc, result, response, reported,
                   started, lastSaved, recorded, arg, out,
                   lock, txn, imp, disk>>

\* consulta_rnc: session.post, parse_result_table, rnc_consultado; then the
\* handler's test of result.get("error")
Post(p) ==
    /\ pc[p] = "post"
    /\ \E r2 \in PostOutcomes :
          /\ calls' = [calls EXCEPT ![p] =
                          Append(@, [method |-> "POST", exc |-> r2.exc,
                                     status_code |-> r2.status_code,
                                     data |-> Payload(hidden[p], rnc[p])])]
          /\ IF r2.exc
             THEN /\ pc' = [pc EXCEPT ![p] = "done"]
                  /\ status' = [status EXCEPT ![p] = 500]
                  /\ UNCHANGED result
             ELSE LET data == (K_rnc_consultado :> rnc[p]) @@ parse_result_table(r2.text)
                  IN /\ result' = [result EXCEPT ![p] = data]
                     /\ pc' = [pc EXCEPT ![p] = IF get_error(data) THEN "error" ELSE "save"]
                     /\ UNCHANGED status
    /\ hidden' = [hidden EXCEPT ![p] = <<>>]
    /\ UNCHANGED <<now, store, metrics, raw, rnc, response, reported, started,
                   lastSaved, recorded, arg, out,
                   lock, txn, imp, disk>>

\* the error branch: update_metrics(cache_hit=False, error=True) and the
\* JSONResponse with 404 or 503
ReturnError(p) ==
    /\ pc[p] = "error"
    /\ metrics' = update_metrics(metrics, now, FALSE, TRUE)
    /\ recorded' = [recorded EXCEPT ![now] = @ + 1]
    /\ reported' = [reported EXCEPT ![p] = Append(@, [cache_hit |-> FALSE, error |-> TRUE])]
    /\ LET code == IF result[p][K_tipo] = "rnc_no_encontrado" THEN 404 ELSE 503
       IN /\ response' = [response EXCEPT ![p] = (K_codigo_http :> code) @@ result[p]]
          /\ status' = [status EXCEPT ![p] = code]
    /\ pc' = [pc EXCEPT ![p] = "done"]
    /\ UNCHANGED <<now, store, raw, rnc, hidden, result, calls, started,
                   lastSaved, arg, out,
                   lock, txn, imp, disk>>

\* save_cache(rnc, result)
Save(p) ==
    /\ pc[p] = "save"
    /\ store' = save_cache(store, rnc[p], result[p], now)
    /\ lastSaved' = (rnc[p] :> [data |-> result[p], at |-> now]) @@ lastSaved
    /\ pc' = [pc EXCEPT ![p] = "fresh"]
    /\ UNCHANGED <<now, metrics, raw, rnc, hidden, result, response, status,
                   calls, reported, started, recorded, arg, out,
                   lock, txn, imp, disk>>

\* update_metrics(cache_hit=False, error=False); return result
ReturnFresh(p) ==
    /\ pc[p] = "fresh"
    /\ metrics' = update_metrics(metrics, now, FALSE, FALSE)
    /\ recorded' = [recorded EXCEPT ![now] = @ + 1]
    /\ reported' = [reported EXCEPT ![p] = Append(@, [cache_hit |-> FALSE, error |-> FALSE])]
    /\ response' = [response EXCEPT ![p] = result[p]]
    /\ status' = [status EXCEPT ![p] = IF ConsultaResponse(result[p]) THEN 200 ELSE 500]
    /\ pc' = [pc EXCEPT ![p] = "done"]
    /\ UNCHANGED <<now, store, raw, rnc, hidden, result, calls, started,
                   lastSaved, arg, out,
                   lock, txn, imp, disk>>

Next ==
    \/ Tick
    \/ \E p \in Procs, r \in RawInputs : consulta_get(p, r)
    \/ \E p \in Procs, r \in RawInputs : consulta_post(p, r)
    \/ \E p \in Procs : ReturnCached(p)
    \/ \E p \in Procs : Get(p)
    \/ \E p \in Procs : Post(p)
    \/ \E p \in Procs : ReturnError(p)
    \/ \E p \in Procs : Save(p)
    \/ \E p \in Procs : ReturnFresh(p)

Spec == Init /\ [][Next]_vars

-----------------------------------------------------------------------------
(* One lookup of an arbitrary supplied identifier *)

Strings(alphabet, n) == UNION { [1..k -> alphabet] : k \in 0..n }

SanAlphabet == {"1", "-", " ", "x", "u0663"}

InitSanitize ==
    /\ InitSystem
    /\ arg \in Strings(SanAlphabet, MaxRawLen)
    /\ out = <<>>

FirstLookup(p) ==
    /\ started = 0
    /\ \/ consulta_get(p, arg)
       \/ consulta_post(p, arg)

NextSanitize ==
    \/ \E p \in Procs : FirstLookup(p)
    \/ \E p \in Procs : Get(p)
    \/ \E p \in Procs : Post(p)
    \/ \E p \in Procs : ReturnError(p)
    \/ \E p \in Procs : Save(p)
    \/ \E p \in Procs : ReturnFresh(p)

SpecSanitize == InitSanitize /\ [][NextSanitize]_vars

-----------------------------------------------------------------------------
(* The parser on arbitrary pages *)

OtherSpan == [id |-> "lblOtro", text |-> MsgNoInscrito]

SpanChoices ==
    { <<>>, <<OtherSpan>>, <<InfoSpan(MsgNoInscrito)>>, <<OtherSpan, InfoSpan(MsgBloqueo)>>,
      <<InfoSpan(<<>>)>> }

RowChoices ==
    { <<L_estado, <<"A">> >>,
      << <<" ", "E", "S", "T", "A", "D", "O", ":">>, <<"B", " ">> >>,
      <<L_nombre_razon_social, <<>> >>,
      <<L_categoria>>,
      <<L_cedula_rnc, <<"1">>, <<"2">> >> }

TableChoices ==
    { <<>>,
      << [id |-> "gvOtros", rows |-> << <<L_estado, <<"A">> >> >>] >>,
      << [id |-> "CPHMAIN_DVDATOSCONTRIBUYENTES", rows |-> << <<L_estado, <<"A">> >> >>] >>,
      << DatosTable(<<>>), DatosTable(<< <<L_estado, <<"A">> >> >>) >> }
    \cup { <<DatosTable(rows)>> : rows \in Strings(RowChoices, MaxRows) }

ParsePages == { [spans |-> s, tables |-> t] : s \in SpanChoices, t \in TableChoices }

Accented == <<"a'", "e'", "i'", "o'", "u'", "n~">>

Plain == <<"a", "e", "i", "o", "u", "n">>

UpperOf(c) ==
    IF \E i \in 1..Len(LowerCase) : LowerCase[i] = c
    THEN UpperCase[CHOOSE i \in 1..Len(LowerCase) : LowerCase[i] = c]
    ELSE c

\* the spellings of one letter of the canonical phrase
Spellings(c) ==
    LET acc == IF \E i \in 1..Len(Plain) : Plain[i] = c
               THEN {Accented[CHOOSE i \in 1..Len(Plain) : Plain[i] = c]}
               ELSE {}
    IN {c, UpperOf(c)} \cup acc \cup {UpperOf(a) : a \in acc}

RECURSIVE Respelled(_, _)
\* the texts that differ from those of S in the spelling of at most n letters
Respelled(S, n) ==
    IF n = 0 THEN S
    ELSE Respelled(S \cup UNION { { [t EXCEPT ![i] = c] :
                                       c \in Spellings(NotRegisteredPhrase[i]) } :
                                     t \in S, i \in 1..Len(NotRegisteredPhrase) }, n - 1)

PhrasePages ==
    { [spans |-> <<InfoSpan(t)>>, tables |-> <<>>] :
        t \in Respelled({NotRegisteredPhrase}, MaxEdits) \cup {MsgNoInscritoMayus} }

InitParse ==
    /\ InitSystem
    /\ arg \in ParsePages \cup PhrasePages
    /\ out = <<>>

ParsePage ==
    /\ DOMAIN out = {}
    /\ out' = parse_result_table(arg)
    /\ UNCHANGED <<now, store, metrics, pc, raw, rnc, hidden, result, response, status,
                   calls, reported, started, lastSaved, recorded, arg,
                   lock, txn, imp, disk>>

NextParse == ParsePage

SpecParse == InitParse /\ [][NextParse]_vars

-----------------------------------------------------------------------------
(* update_rnc_db.py: the bulk importer *)

\* BATCH_SIZE is 1000 in the source; scaled down so that a file of a few rows
\* fills a batch
BATCH_SIZE == 2

MaxRuns == 2

TEMP_ZIP == "temp_rnc.zip"

CSV_FILENAME == "TMP_RNC.csv"

\* update_rnc_db.normalize_text: "" for an empty text, else text.strip()
importer_normalize_text(text) == IF text = <<>> THEN <<>> ELSE strip(text)

\* row[i] stripped when the row has that column, else ""
Column(row, i) == IF Len(row) >= i THEN importer_normalize_text(row[i]) ELSE <<>>

\* rnc = normalize_text(row[0]).replace("-", "")
row_rnc(row) == replace(importer_normalize_text(row[1]), "-", <<>>)

response_data_stamped(row, now_iso) ==
    (K_cedula_rnc :> row_rnc(row)) @@ (K_nombre_razon_social :> Column(row, 2))
    @@ (K_nombre_comercial :> now_iso) @@ (K_categoria :> <<>>)
    @@ (K_regimen_de_pagos :> Column(row, 6)) @@ (K_estado :> Column(row, 5))
    @@ (K_actividad_economica :> Column(row, 3)) @@ (K_administracion_local :> <<>>)
    @@ (K_facturador_electronico :> <<>>)
    @@ (K_licencias_de_comercializacion_de_vhm :> <<>>)
    @@ (K_rnc_consultado :> row_rnc(row)) @@ (K_cache :> TRUE)

\* the profile built from one row of the registry file
response_data(row, now_iso) ==
    (K_cedula_rnc :> row_rnc(row)) @@ (K_nombre_razon_social :> Column(row, 2))
    @@ (K_nombre_comercial :> <<>>) @@ (K_categoria :> <<>>)
    @@ (K_regimen_de_pagos :> Column(row, 6)) @@ (K_estado :> Column(row, 5))
    @@ (K_actividad_economica :> Column(row, 3)) @@ (K_administracion_local :> <<>>)
    @@ (K_facturador_electronico :> <<>>)
    @@ (K_licencias_de_comercializacion_de_vhm :> <<>>)
    @@ (K_rnc_consultado :> row_rnc(row)) @@ (K_cache :> TRUE)

\* the tuple appended to batch_data for a row
batch_entry(row, now_iso) == <<row_rnc(row), json_dumps(response_data(row, now_iso)), now_iso>>

RECURSIVE executemany(_, _)
\* cursor.executemany(INSERT OR REPLACE ...) followed by db.commit()
executemany(db, batch) ==
    IF batch = <<>> THEN db
    ELSE executemany((batch[1][1] :> [response_json |-> batch[1][2],
                                      created_at |-> batch[1][3]]) @@ db,
                     Tail(batch))

db_close_flushes(db, pending) == executemany(db, pending)

\* db.close() with writes that were not committed: they are rolled back
db_close(db, pending) == db

RECURSIVE NoteSaved(_, _)
\* lastSaved after the rows of a committed batch
NoteSaved(ls, batch) ==
    IF batch = <<>> THEN ls
    ELSE NoteSaved((batch[1][1] :> [data |-> json_loads(batch[1][2]),
                                    at |-> fromisoformat(batch[1][3])]) @@ ls,
                   Tail(batch))

\* what a reader of the store can observe: the keys and the profile of each
View(db) == [k \in DOMAIN db |-> json_loads(db[k].response_json)]

HeaderRow == << <<"R","N","C">>, <<"N">> >>

Row_12 == << <<"1","-","2">>, <<"A">> >>

Row_12b == << <<"1","2">>, <<"B">> >>

Row_x7 == << <<" ","x","7">>, <<"C">> >>

Row_hyphen == << <<"-">>, <<"D">> >>

Row_six == << <<"3">>, <<"E">>, <<"a">>, <<"f">>, <<" ","s">>, <<"r">> >>

Row_short == << <<"9">> >>

\* registry files: a header, short and empty rows, a repeated identifier,
\* first columns that are not digits and hyphens only
Files ==
    { [has_header |-> TRUE, rows |-> <<HeaderRow, Row_12, Row_short, Row_x7, Row_12b>>],
      [has_header |-> FALSE, rows |-> <<Row_hyphen, Row_six, <<>>, Row_12>>],
      [has_header |-> FALSE, rows |-> <<Row_12>>] }

\* how download_and_extract_zip can end
DownloadOutcomes ==
    { [kind |-> k, file |-> NoFile] :
          k \in {"wget_failed", "wget_partial", "wget_missing", "no_text_member",
                 "unzip_failed", "bad_zip_none"} }
    \cup { [kind |-> k, file |-> f] : k \in {"extracted", "bad_zip_found"}, f \in Files }

\* the files wget and unzip leave behind, on top of what was there; a wget
\* that fails may or may not have written its output file
DiskAfter(files, o) ==
    LET cleared == files \ {TEMP_ZIP}
    IN CASE o.kind \in {"wget_missing", "wget_failed"} -> cleared
         [] o.kind = "extracted" -> cleared \cup {CSV_FILENAME}
         [] o.kind = "bad_zip_found" -> cleared \cup {TEMP_ZIP, CSV_FILENAME}
         [] OTHER -> cleared \cup {TEMP_ZIP}

\* the value download_and_extract_zip returns ("" for None)
ExtractedFile(o) == IF o.kind \in {"extracted", "bad_zip_found"} THEN CSV_FILENAME ELSE ""

\* __main__: download_and_extract_zip(ZIP_URL), then the branch on its result
download_and_extract_zip(o) ==
    /\ imp.pc \in {"idle", "done", "crashed"}
    /\ imp.runs < MaxRuns
    /\ disk' = DiskAfter(disk, o)
    /\ imp' = [imp EXCEPT !.pc = IF o.kind = "unzip_failed" THEN "crashed"
                                 ELSE IF ExtractedFile(o) = "" THEN "done"
                                 ELSE "open",
                          !.runs = @ + 1,
                          !.extracted_file = ExtractedFile(o),
                          !.content = o.file,
                          !.rows = <<>>, !.batch_data = <<>>, !.committed = <<>>,
                          !.count = 0, !.updated = 0, !.printed = -1,
                          !.aborted = FALSE, !.reimport = FALSE]
    /\ UNCHANGED <<now, store, metrics, pc, raw, rnc, hidden, result, response, status,
                   calls, reported, started, lastSaved, recorded, arg, out, lock, txn>>

\* process_csv_and_update_db up to the loop: the file is opened, now_iso is
\* taken, the header is skipped
process_open ==
    /\ imp.pc = "open"
    /\ IF imp.extracted_file \notin disk
       THEN imp' = [imp EXCEPT !.pc = "done"]
       ELSE imp' = [imp EXCEPT !.pc = "rows",
                               !.now_iso = isoformat(now),
                               !.rows = IF imp.content.has_header /\ imp.content.rows # <<>>
                                        THEN Tail(imp.content.rows)
                                        ELSE imp.content.rows]
    /\ UNCHANGED <<now, store, metrics, pc, raw, rnc, hidden, result, response, status,
                   calls, reported, started, lastSaved, recorded, arg, out, lock, txn,
                   disk>>

\* one turn of "for row in reader"; a full batch is written and committed,
\* unless the write fails, which ends the run through except and finally
process_row(commit_ok) ==
    /\ imp.pc = "rows"
    /\ imp.rows # <<>>
    /\ LET row == Head(imp.rows)
           skip == Len(row) < 2
           batch == IF skip THEN imp.batch_data
                    ELSE Append(imp.batch_data, batch_entry(row, imp.now_iso))
           full == ~skip /\ Len(batch) >= BATCH_SIZE
       IN /\ (~full) => commit_ok
          /\ IF full /\ commit_ok
             THEN /\ store' = executemany(store, batch)
                  /\ lastSaved' = NoteSaved(lastSaved, batch)
                  /\ imp' = [imp EXCEPT !.rows = Tail(@), !.batch_data = <<>>,
                                        !.count = @ + 1,
                                        !.updated = @ + Len(batch),
                                        !.committed = @ \o batch,
                                        !.done_content =
                                            IF @ = imp.content THEN @ ELSE NoFile]
                  /\ UNCHANGED disk
             ELSE IF full
             THEN /\ store' = db_close(store, batch)
                  /\ imp' = [imp EXCEPT !.rows = Tail(@), !.batch_data = batch,
                                        !.count = @ + 1,
                                        !.pc = "done", !.aborted = TRUE,
                                        !.printed = imp.updated]
                  /\ disk' = disk \ {imp.extracted_file}
                  /\ UNCHANGED lastSaved
             ELSE /\ imp' = [imp EXCEPT !.rows = Tail(@), !.batch_data = batch,
                                        !.count = IF skip THEN @ ELSE @ + 1]
                  /\ UNCHANGED <<store, lastSaved, disk>>
    /\ UNCHANGED <<now, metrics, pc, raw, rnc, hidden, result, response, status,
                   calls, reported, started, recorded, arg, out, lock, txn>>

\* the reader raises while the rows are read: except, then finally, then
\* the closing print
process_fail ==
    /\ imp.pc = "rows"
    /\ store' = db_close(store, imp.batch_data)
    /\ disk' = disk \ {imp.extracted_file}
    /\ imp' = [imp EXCEPT !.pc = "done", !.aborted = TRUE, !.printed = imp.updated]
    /\ UNCHANGED <<now, metrics, pc, raw, rnc, hidden, result, response, status,
                   calls, reported, started, lastSaved, recorded, arg, out, lock, txn>>

\* the rows are exhausted: the final batch, then finally and the closing print
process_final ==
    /\ imp.pc = "rows"
    /\ imp.rows = <<>>
    /\ store' = executemany(store, imp.batch_data)
    /\ lastSaved' = NoteSaved(lastSaved, imp.batch_data)
    /\ disk' = disk \ {imp.extracted_file}
    /\ imp' = [imp EXCEPT !.pc = "done", !.batch_data = <<>>,
                          !.updated = @ + Len(imp.batch_data),
                          !.printed = imp.updated + Len(imp.batch_data),
                          !.committed = @ \o imp.batch_data,
                          !.done_content = imp.content,
                          !.reimport = (imp.done_content = imp.content),
                          !.snapshot = View(executemany(store, imp.batch_data))]
    /\ UNCHANGED <<now, metrics, pc, raw, rnc, hidden, result, response, status,
                   calls, reported, started, recorded, arg, out, lock, txn>>

\* the importer alone, run after run
NextReimport ==
    \/ Tick
    \/ \E o \in DownloadOutcomes : download_and_extract_zip(o)
    \/ process_open
    \/ \E ok \in BOOLEAN : process_row(ok)
    \/ process_fail
    \/ process_final

SpecReimport == Init /\ [][NextReimport]_vars

\* one importer run while a handler of the service answers lookups
NextImport ==
    \/ Tick
    \/ consulta_get("w1", <<"1", "-", "2">>)
    \/ ReturnCached("w1")
    \/ Get("w1")
    \/ Post("w1")
    \/ ReturnError("w1")
    \/ Save("w1")
    \/ ReturnFresh("w1")
    \/ imp.runs = 0 /\ \E f \in Files :
                           download_and_extract_zip([kind |-> "extracted", file |-> f])
    \/ process_open
    \/ \E ok \in BOOLEAN : process_row(ok)
    \/ process_fail
    \/ process_final

SpecImport == Init /\ [][NextImport]_vars

-----------------------------------------------------------------------------
(* update_metrics statement by statement, on concurrent connections *)

\* sqlite grants the write lock of the database file to one connection at a
\* time: p may write when nobody else holds it
reserved_lock_ignored(holder, p) == TRUE

reserved_lock_free(holder, p) == holder \in {NoHolder, p}

\* INSERT OR IGNORE INTO usage_metrics (date, created_at, updated_at)
insert_or_ignore_day(m, today, utcnow) ==
    IF today \in DOMAIN m THEN m ELSE (today :> NewMetricsRow(utcnow)) @@ m

\* UPDATE usage_metrics SET ... WHERE date = today
update_counters(m, today, utcnow, cache_hit, error) ==
    IF today \notin DOMAIN m THEN m
    ELSE [m EXCEPT ![today] =
             [@ EXCEPT !.total_requests = @ + 1,
                       !.cache_hits = @ + (IF cache_hit THEN 1 ELSE 0),
                       !.cache_misses = @ + (IF cache_hit THEN 0 ELSE 1),
                       !.errors = @ + (IF error THEN 1 ELSE 0),
                       !.updated_at = isoformat(utcnow)]]

\* the three ways the handlers call update_metrics
MetricsEvents ==
    { [cache_hit |-> TRUE, error |-> FALSE],
      [cache_hit |-> FALSE, error |-> TRUE],
      [cache_hit |-> FALSE, error |-> FALSE] }

\* entry of update_metrics: today and now are read, the connection is opened
update_metrics_begin(p, ev) ==
    /\ pc[p] = "idle"
    /\ started < MaxLookups
    /\ started' = started + 1
    /\ txn' = [txn EXCEPT ![p] =
                  [today |-> isoformat(now), now |-> now,
                   cache_hit |-> ev.cache_hit, error |-> ev.error, view |-> <<>>,
                   overlapped |-> \E q \in Procs \ {p} : pc[q] # "idle"]]
    /\ reported' = [reported EXCEPT ![p] = Append(@, ev)]
    /\ pc' = [pc EXCEPT ![p] = "insert"]
    /\ UNCHANGED <<now, store, metrics, raw, rnc, hidden, result, response, status,
                   calls, lastSaved, recorded, arg, out, lock, imp, disk>>

\* the INSERT OR IGNORE opens the write transaction and takes the lock
update_metrics_insert(p) ==
    /\ pc[p] = "insert"
    /\ reserved_lock_free(lock, p)
    /\ lock' = p
    /\ txn' = [txn EXCEPT ![p].view = insert_or_ignore_day(metrics, txn[p].today, txn[p].now)]
    /\ pc' = [pc EXCEPT ![p] = "update"]
    /\ UNCHANGED <<now, store, metrics, raw, rnc, hidden, result, response, status,
                   calls, reported, started, lastSaved, recorded, arg, out, imp, disk>>

\* the lock stayed with another connection for the whole busy timeout:
\* sqlite3.OperationalError leaves update_metrics, nothing was written
update_metrics_busy(p) ==
    /\ pc[p] = "insert"
    /\ lock \notin {NoHolder, p}
    /\ status' = [status EXCEPT ![p] = 500]
    /\ pc' = [pc EXCEPT ![p] = "idle"]
    /\ UNCHANGED <<now, store, metrics, raw, rnc, hidden, result, response,
                   calls, reported, started, lastSaved, recorded, arg, out,
                   lock, txn, imp, disk>>

\* the UPDATE of the counters, inside the same transaction
update_metrics_update(p) ==
    /\ pc[p] = "update"
    /\ txn' = [txn EXCEPT ![p].view =
                  update_counters(txn[p].view, txn[p].today, txn[p].now,
                                  txn[p].cache_hit, txn[p].error)]
    /\ pc' = [pc EXCEPT ![p] = "commit"]
    /\ UNCHANGED <<now, store, metrics, raw, rnc, hidden, result, response, status,
                   calls, reported, started, lastSaved, recorded, arg, out,
                   lock, imp, disk>>

\* db.commit(); db.close()
update_metrics_commit(p) ==
    /\ pc[p] = "commit"
    /\ metrics' = txn[p].view
    /\ lock' = NoHolder
    /\ recorded' = [recorded EXCEPT ![txn[p].now] = @ + 1]
    /\ txn' = [txn EXCEPT ![p].view = <<>>]
    /\ pc' = [pc EXCEPT ![p] = "idle"]
    /\ UNCHANGED <<now, store, raw, rnc, hidden, result, response, status,
                   calls, reported, started, lastSaved, arg, out, imp, disk>>

NextMetrics ==
    \/ Tick
    \/ \E p \in Procs, ev \in MetricsEvents : update_metrics_begin(p, ev)
    \/ \E p \in Procs : update_metrics_insert(p)
    \/ \E p \in Procs : update_metrics_busy(p)
    \/ \E p \in Procs : update_metrics_update(p)
    \/ \E p \in Procs : update_metrics_commit(p)

SpecMetrics == Init /\ [][NextMetrics]_vars

-----------------------------------------------------------------------------
(* Properties *)

\* a result carries the error marker
HasErrorMarker(data) == K_error \in DOMAIN data

\* save_cache was last called for k no more than one week ago
SavedFresh(k) == k \in DOMAIN lastSaved /\ now - lastSaved[k].at <= DaysPerWeek

\* handler p takes its first step: sanitization and the cache read
Entering(p) == pc[p] \in {"idle", "done"} /\ pc'[p] \in {"hit", "get"}

HitFlags == [cache_hit |-> TRUE, error |-> FALSE]

FetchedFlags == [cache_hit |-> FALSE, error |-> FALSE]

ErrorFlags == [cache_hit |-> FALSE, error |-> TRUE]

\* C1: a lookup is a cache hit exactly when a record was saved for the
\* sanitized identifier at most one week before (age = TTL is still a hit,
\* any greater age a miss); a hit hands back the saved profile with the
\* cache flag true; a miss goes on to the upstream fetch; the read deletes
\* nothing.
C1_CacheFreshness ==
    [][\A p \in Procs :
         /\ Entering(p) =>
              /\ store' = store
              /\ IF SavedFresh(rnc'[p])
                 THEN /\ pc'[p] = "hit"
                      /\ result'[p] = (K_cache :> TRUE) @@ lastSaved[rnc'[p]].data
                 ELSE /\ pc'[p] = "get"
                      /\ calls'[p] = <<>>
         /\ (pc[p] = "hit" /\ pc'[p] = "done") =>
              /\ response'[p] = result[p]
              /\ response'[p][K_cache] = TRUE
              /\ store' = store]_vars

\* a hit on a record whose age is exactly the TTL
C1_Witness ==
    \E p \in Procs :
        /\ pc[p] = "done"
        /\ reported[p] = <<HitFlags>>
        /\ rnc[p] \in DOMAIN lastSaved
        /\ now = lastSaved[rnc[p]].at + DaysPerWeek
        /\ response[p] = (K_cache :> TRUE) @@ lastSaved[rnc[p]].data

\* C2: a successful fetch after a miss persists its result under the
\* identifier with the time of the write; every later lookup of that
\* identifier within the TTL is a hit that returns that profile with the
\* cache flag true and issues neither the GET nor the POST.
C2_PersistThenHit ==
    [][\A p \in Procs :
         /\ (pc[p] = "save" /\ pc'[p] = "fresh") =>
              /\ rnc[p] \in DOMAIN store'
              /\ json_loads(store'[rnc[p]].response_json) = result[p]
              /\ fromisoformat(store'[rnc[p]].created_at) = now
         /\ (Entering(p) /\ SavedFresh(rnc'[p])) =>
              /\ pc'[p] = "hit"
              /\ \A f \in DOMAIN lastSaved[rnc'[p]].data :
                     result'[p][f] = lastSaved[rnc'[p]].data[f]
              /\ result'[p][K_cache] = TRUE
         /\ (pc[p] = "hit" /\ pc'[p] # "hit") =>
              /\ pc'[p] = "done"
              /\ calls'[p] = <<>>
              /\ response'[p] = result[p]]_vars

\* a second lookup served from the record the first one saved
C2_Witness ==
    \E p \in Procs :
        /\ pc[p] = "done"
        /\ reported[p] = <<HitFlags>>
        /\ calls[p] = <<>>
        /\ started = 2
        /\ rnc[p] \in DOMAIN lastSaved
        /\ response[p] = (K_cache :> TRUE) @@ lastSaved[rnc[p]].data
        /\ K_nombre_razon_social \in DOMAIN response[p]

\* C3 as stated: after a lookup ends in an error the store has no entry for
\* its identifier.
C3_NoEntryAfterError ==
    \A p \in Procs :
        (pc[p] = "done" /\ reported[p] = <<ErrorFlags>>) => rnc[p] \notin DOMAIN store

\* C3 amended: a lookup that ends in an error writes nothing (only the
\* save_cache step of a successful fetch changes the store, and a lookup that
\* reports an error never took it), and no stored record carries an error
\* marker; an entry for the identifier may remain from an earlier success.
C3_ErrorNeverWritten ==
    /\ [](\A k \in DOMAIN store : ~HasErrorMarker(json_loads(store[k].response_json)))
    /\ [][\A p \in Procs :
            pc'[p] # pc[p] =>
              IF pc[p] = "save"
              THEN ~HasErrorMarker(result[p]) /\ pc'[p] = "fresh"
              ELSE /\ store' = store
                   /\ (pc'[p] = "done" /\ reported'[p] = <<ErrorFlags>>) =>
                          (pc[p] = "error" /\ HasErrorMarker(result[p]))
                   /\ pc[p] = "fresh" => reported'[p] = <<FetchedFlags>>]_vars

\* a not-registered answer for an identifier whose stale record stays in place
C3_Witness ==
    \E p \in Procs :
        /\ pc[p] = "done"
        /\ status[p] = 404
        /\ reported[p] = <<ErrorFlags>>
        /\ rnc[p] \in DOMAIN store
        /\ now - fromisoformat(store[rnc[p]].created_at) > DaysPerWeek

\* C4 as stated: an identifier with no digit is rejected before any I/O: no
\* upstream request, no cache write.
C4_EmptyIdentifierRejected ==
    \A p \in Procs :
        (pc[p] # "idle" /\ rnc[p] = <<>>) =>
            /\ calls[p] = <<>>
            /\ <<>> \notin DOMAIN store
            /\ pc[p] = "done" => status[p] = 422

\* C5 as stated: every finished lookup answers 200 with the profile (hit or
\* successful fetch), 404 (not registered) or 503 (transient, empty).
C5_ThreeResponses ==
    \A p \in Procs :
        pc[p] = "done" =>
            /\ status[p] \in {200, 404, 503}
            /\ status[p] = 200 <=> ~HasErrorMarker(result[p])
            /\ status[p] = 404 <=>
                   (HasErrorMarker(result[p]) /\ result[p][K_tipo] = "rnc_no_encontrado")

\* C6 as stated: every finished lookup, a network failure included, has
\* reported to update_metrics exactly once with the flags of its outcome.
C6_ReportedExactlyOnce ==
    \A p \in Procs :
        pc[p] = "done" =>
            /\ Len(reported[p]) = 1
            /\ reported[p][1] =
                   IF calls[p] = <<>> THEN HitFlags
                   ELSE IF status[p] \in {404, 503, 500} /\
                           (calls[p][Len(calls[p])].exc \/ HasErrorMarker(result[p]))
                        THEN ErrorFlags
                        ELSE FetchedFlags

Counter(row) == <<row.total_requests, row.cache_hits, row.cache_misses, row.errors>>

\* C7: on every date the row exists exactly when an outcome was recorded
\* that day, total_requests is the number of outcomes recorded that day,
\* cache_hits + cache_misses = total_requests, and no counter ever decreases.
C7_MetricsCounts ==
    /\ [](\A d \in DOMAIN recorded :
            IF recorded[d] = 0 THEN isoformat(d) \notin DOMAIN metrics
            ELSE /\ isoformat(d) \in DOMAIN metrics
                 /\ metrics[isoformat(d)].total_requests = recorded[d]
                 /\ metrics[isoformat(d)].cache_hits + metrics[isoformat(d)].cache_misses
                        = metrics[isoformat(d)].total_requests)
    /\ [][\A d \in DOMAIN metrics :
            /\ d \in DOMAIN metrics'
            /\ \A i \in 1..4 : Counter(metrics'[d])[i] >= Counter(metrics[d])[i]]_vars

\* a date with a miss and a hit recorded, and an earlier date with its own row
C7_Witness ==
    \E d \in DOMAIN metrics :
        /\ metrics[d].total_requests = 2
        /\ metrics[d].cache_hits = 1
        /\ metrics[d].cache_misses = 1

IsDecimalDigit(c) == c \in Digits

\* the decimal digits of a text, in their order
DecimalDigits(text) == SelectSeq(text, IsDecimalDigit)

\* C8: the sanitized identifier is exactly the supplied text's decimal
\* digits in their order ("132-01" gives "13201", "" gives ""), and it is
\* that value which keys the cache and is sent as the upstream query.
C8_SanitizedEverywhere ==
    /\ sanitize_rnc(Raw_132_01) = Digits_13201
    /\ sanitize_rnc(<<>>) = <<>>
    /\ DOMAIN store \subseteq {DecimalDigits(arg)}
    /\ \A p \in Procs :
          pc[p] # "idle" =>
              /\ raw[p] = arg
              /\ rnc[p] = DecimalDigits(arg)
              /\ \A i \in 1..Len(calls[p]) :
                     calls[p][i].method = "POST" =>
                         calls[p][i].data[TXT_RNC_FIELD] = DecimalDigits(arg)

\* a supplied text with other characters around two digits, fetched and cached
C8_Witness ==
    \E p \in Procs :
        /\ pc[p] = "done"
        /\ Len(rnc[p]) = 2
        /\ Len(raw[p]) = 3
        /\ rnc[p] \in DOMAIN store
        /\ Len(calls[p]) = 2
        /\ calls[p][2].data[TXT_RNC_FIELD] = rnc[p]

IsInfoSpan(s) == s.id = INFO_SPAN_ID

IsDatosTable(t) == MatchesDatosContribuyentes(t.id)

IsTwoColumn(row) == Len(row) = 2

\* the two-column rows of the first data table of a page, if any
TwoColumnRows(page) ==
    LET tables == SelectSeq(page.tables, IsDatosTable)
    IN IF tables = <<>> THEN <<>> ELSE SelectSeq(tables[1].rows, IsTwoColumn)

\* the order of classification: message first, then the table
ClassifiedInOrder(page, res) ==
    IF SelectSeq(page.spans, IsInfoSpan) # <<>>
    THEN /\ HasErrorMarker(res)
         /\ res[K_tipo] = IF Contains(NotRegisteredPhrase, res[K_mensaje])
                          THEN "rnc_no_encontrado" ELSE "dgii_error"
    ELSE IF TwoColumnRows(page) = <<>>
    THEN res = ErrorResult("dgii_error", RespuestaVacia)
    ELSE ~HasErrorMarker(res)

IsProfilePage(page) ==
    SelectSeq(page.spans, IsInfoSpan) = <<>> /\ TwoColumnRows(page) # <<>>

\* C9 as stated: classification in the fixed order, and a table with N
\* two-column rows gives a profile with N fields.
C9_NFieldsForNRows ==
    DOMAIN out # {} =>
        /\ ClassifiedInOrder(arg, out)
        /\ IsProfilePage(arg) => Cardinality(DOMAIN out) = Len(TwoColumnRows(arg))

\* C9 amended: classification in the fixed order, and a table with N
\* two-column rows gives a profile with one field per distinct normalized
\* label (N fields when the labels are distinct), each holding the value of
\* the last row with that label.
C9_FieldPerDistinctLabel ==
    DOMAIN out # {} =>
        /\ ClassifiedInOrder(arg, out)
        /\ IsProfilePage(arg) =>
             LET rows == TwoColumnRows(arg)
                 Last(k) == CHOOSE i \in 1..Len(rows) :
                                /\ RowKey(rows[i]) = k
                                /\ \A j \in (i + 1)..Len(rows) : RowKey(rows[j]) # k
             IN /\ DOMAIN out = {RowKey(rows[i]) : i \in 1..Len(rows)}
                /\ Cardinality(DOMAIN out) <= Len(rows)
                /\ \A k \in DOMAIN out : out[k] = strip(rows[Last(k)][2])

\* a page with the message and a filled data table, classified by the message
C9_Witness ==
    /\ DOMAIN out # {}
    /\ SelectSeq(arg.spans, IsInfoSpan) # <<>>
    /\ Len(TwoColumnRows(arg)) = 2
    /\ HasErrorMarker(out)
    /\ out[K_tipo] = "dgii_error"

\* case and accent folding of one character
FoldChar(c) ==
    LET l == LowerChar(c)
    IN IF \E i \in 1..Len(Accented) : Accented[i] = l
       THEN Plain[CHOOSE i \in 1..Len(Accented) : Accented[i] = l]
       ELSE l

Fold(text) == [i \in 1..Len(text) |-> FoldChar(text[i])]

\* C10 as stated: a message that is the canonical phrase up to letter case
\* and Spanish diacritics is classified NotRegistered.
C10_AnySpellingNotRegistered ==
    (DOMAIN out # {} /\ SelectSeq(arg.spans, IsInfoSpan) # <<>>) =>
        LET text == SelectSeq(arg.spans, IsInfoSpan)[1].text
        IN Contains(NotRegisteredPhrase, Fold(text)) => out[K_tipo] = "rnc_no_encontrado"

\* C14: under every interleaving of concurrent update_metrics calls a day
\* has its row exactly when an event of that day was recorded, the row's
\* total_requests is the number of events recorded that day, and each
\* commit changes the table exactly as one uninterrupted
\* create-if-absent-then-increment on the table as it stood.
C14_AtomicPerEvent ==
    /\ [](\A d \in DOMAIN recorded :
            IF recorded[d] = 0 THEN isoformat(d) \notin DOMAIN metrics
            ELSE /\ isoformat(d) \in DOMAIN metrics
                 /\ metrics[isoformat(d)].total_requests = recorded[d])
    /\ [][\A p \in Procs :
            (pc[p] = "commit" /\ pc'[p] = "idle") =>
                metrics' = update_counters(
                               insert_or_ignore_day(metrics, txn[p].today, txn[p].now),
                               txn[p].today, txn[p].now, txn[p].cache_hit, txn[p].error)]_vars

\* the first two events of a day were recorded by calls that overlapped
C14_Witness ==
    /\ \A p \in Procs : pc[p] = "idle" /\ Len(reported[p]) = 1
    /\ \E p \in Procs : txn[p].overlapped
    /\ txn["w1"].now = txn["w2"].now
    /\ recorded[txn["w1"].now] = 2
    /\ metrics[txn["w1"].today].total_requests = 2

\* every field of the ConsultaResponse schema
SchemaFields == ProfileFields \cup {K_rnc_consultado, K_cache}

\* C11 as stated: every profile stored in the cache or returned by a
\* successful lookup has the ten string fields, the queried identifier and
\* the cache flag.
C11_AllFieldsPresent ==
    /\ \A k \in DOMAIN store :
           SchemaFields \subseteq {store[k].response_json[i][1] :
                                      i \in 1..Len(store[k].response_json)}
    /\ \A p \in Procs :
           (pc[p] = "done" /\ reported[p] \in {<<HitFlags>>, <<FetchedFlags>>}) =>
               SchemaFields \subseteq DOMAIN response[p]

\* C13: lookups are not coalesced (a handler reaches save_cache only after
\* its own GET and POST), and every change of the store is one handler's
\* whole upsert: the key gets that handler's profile together with the time
\* of that write, no other key changes and no key is lost.
C13_WholeRecordLastWriter ==
    /\ [](\A p \in Procs :
            pc[p] \in {"save", "fresh"} =>
                /\ Len(calls[p]) = 2
                /\ calls[p][1].method = "GET"
                /\ calls[p][2].method = "POST")
    /\ [][/\ DOMAIN store \subseteq DOMAIN store'
          /\ \A k \in DOMAIN store' :
                (k \notin DOMAIN store \/ store'[k] # store[k]) =>
                    \E p \in Procs :
                        /\ pc[p] = "save" /\ pc'[p] = "fresh" /\ rnc[p] = k
                        /\ json_loads(store'[k].response_json) = result[p]
                        /\ fromisoformat(store'[k].created_at) = now
                        /\ \A j \in DOMAIN store \ {k} : store'[j] = store[j]]_vars

\* two handlers fetched different answers for one identifier and both have
\* saved: the record is wholly the one or wholly the other
C13_Witness ==
    /\ pc["w1"] = "fresh" /\ pc["w2"] = "fresh"
    /\ rnc["w1"] = rnc["w2"]
    /\ result["w1"] # result["w2"]
    /\ rnc["w1"] \in DOMAIN store
    /\ \E p \in Procs :
          /\ json_loads(store[rnc[p]].response_json) = result[p]
          /\ fromisoformat(store[rnc[p]].created_at) = now

\* an upstream call failed: an exception, or a status that is not 2xx
FailedCall(c) == c.exc \/ c.status_code \notin 200..299

\* C16 as stated: a network failure on the GET or the POST ends the lookup
\* as the 503 outcome, with no further upstream call after the failure and
\* nothing written.
C16_NetworkFailureIsTransient ==
    \A p \in Procs :
        \A i \in 1..Len(calls[p]) :
            FailedCall(calls[p][i]) =>
                /\ i = Len(calls[p])
                /\ pc[p] \in {"done", "error"}
                /\ pc[p] = "done" => status[p] = 503
                /\ DOMAIN result[p] = {}

\* C17 as stated: a POST is the second request of its lookup, after the
\* GET, and carries at least one hidden field taken from it.
C17_PostCarriesHiddenState ==
    \A p \in Procs :
        \A i \in 1..Len(calls[p]) :
            calls[p][i].method = "POST" =>
                /\ i = 2
                /\ calls[p][1].method = "GET"
                /\ DOMAIN calls[p][i].data \ {TXT_RNC_FIELD, BTN_BUSCAR_FIELD} # {}

RunEnded == imp.pc \in {"done", "crashed"} /\ imp.runs > 0

\* C15 as stated: when a run has ended, neither the archive nor the
\* extracted file is on disk.
C15_NothingLeftOnDisk == RunEnded => disk \cap {TEMP_ZIP, CSV_FILENAME} = {}

\* the store holds this batch entry: its key, with its profile
InStore(t) == t[1] \in DOMAIN store /\ store[t[1]].response_json = t[2]

\* the rows the aborted run had not committed: the batch in progress and
\* the rows after it
Uncommitted ==
    {imp.batch_data[i] : i \in 1..Len(imp.batch_data)}
    \cup {batch_entry(imp.rows[i], imp.now_iso) :
             i \in {j \in 1..Len(imp.rows) : Len(imp.rows[j]) >= 2}}

\* C18 as stated: an aborted run reports the number of records of its
\* committed batches, none of the uncommitted records is in the store and
\* every counted record is.
C18_CountedIffPresent ==
    (imp.pc = "done" /\ imp.aborted /\ imp.committed # <<>>) =>
        /\ imp.printed = Len(imp.committed)
        /\ \A t \in Uncommitted : ~InStore(t)
        /\ \A i \in 1..Len(imp.committed) : InStore(imp.committed[i])

\* C18, amended: an aborted run reports the number of rows of its committed
\* batches; the identifier of each of them is in the store; and the run
\* changes the store only by committing a batch, so the abort and the rows
\* not committed leave the store as it was.
C18_CountsCommittedBatches ==
    /\ []((imp.pc = "done" /\ imp.aborted) =>
            /\ imp.printed = Len(imp.committed)
            /\ \A i \in 1..Len(imp.committed) : imp.committed[i][1] \in DOMAIN store)
    /\ [][(imp'.committed = imp.committed \/ imp'.aborted) => store' = store]_vars

\* a run aborted after one committed batch, with a batch in progress
C18_Witness ==
    /\ imp.pc = "done" /\ imp.aborted
    /\ imp.printed = BATCH_SIZE
    /\ imp.batch_data # <<>>
    /\ imp.count > imp.printed

\* C19 as stated: every key is a non-empty string of decimal digits, equal
\* to its sanitized form, and the stored profile names it as the queried
\* identifier.
C19_KeysSanitized ==
    \A k \in DOMAIN store :
        /\ k # <<>>
        /\ \A i \in 1..Len(k) : k[i] \in Digits
        /\ sanitize_rnc(k) = k
        /\ json_loads(store[k].response_json)[K_rnc_consultado] = k

\* C20 as stated: no write replaces a record by one with an earlier
\* creation timestamp.
C20_TimestampNeverBackward ==
    [][\A k \in DOMAIN store :
          /\ k \in DOMAIN store'
          /\ fromisoformat(store'[k].created_at) >= fromisoformat(store[k].created_at)]_vars

=============================================================================
